---------------------------- MODULE Spec2Model ----------------------------
(***************************************************************************)
(* A model of src/demuxer/Demuxers/LAVFUtils.cpp: the "ufile" URL protocol *)
(* (ufile_open / read / write / seek / close / get_handle over the host's  *)
(* low-level file calls) and the stream descriptor helpers (get_bit_rate,  *)
(* get_stream_language, get_codec_name, lavf_describe_stream).             *)
(*                                                                         *)
(* Text is a sequence of one-character strings.  Integers that the code    *)
(* keeps in an int are reduced to 32 bits where the code computes them.    *)
(***************************************************************************)
EXTENDS Integers, Sequences, FiniteSets, TLC

VARIABLES
  priv_data,   \* URLContext::priv_data of the one adapter context
  fdtab,       \* the host's descriptor table: fd -> [owner, file, pos, acc]
  files,       \* the host's files: name -> content (a sequence of bytes)
  last,        \* what the last ufile_* call did (history, for the properties)
  res          \* the last descriptor-helper call: its inputs and its result

vars == <<priv_data, fdtab, files, last, res>>

(***************************************************************************)
(* Bounds of the model.                                                    *)
(***************************************************************************)
MaxFds == 1
MaxFileLen == 2

(***************************************************************************)
(* Constants of the C runtime and of libavformat that the code names.      *)
(***************************************************************************)
AVSEEK_SIZE == 65536
ENOENT == 2
EBADF == 9
EACCES == 13
EINVAL == 22
EMFILE == 24
WFILENAME_CHARS == 4096
FirstFd == 3

URL_RDONLY == 0
URL_WRONLY == 1
URL_RDWR == 2

SEEK_SET == 0
SEEK_CUR == 1
SEEK_END == 2

AVERROR(e) == 0 - e

Min(a, b) == IF a < b THEN a ELSE b
Max(a, b) == IF a > b THEN a ELSE b

(***************************************************************************)
(* The host: descriptors FirstFd .. FirstFd+MaxFds-1 can be allocated;     *)
(* descriptors 0..2 are the standard streams, which a GUI host process     *)
(* does not have, so every call on them fails with EBADF.                  *)
(***************************************************************************)
FdSet == FirstFd .. (FirstFd + MaxFds - 1)
FileNames == {"a", "o"}
FreeSlot == [owner |-> "free", file |-> "a", pos |-> 0, acc |-> "r"]

IsOpenFd(fd) == fd \in FdSet /\ fdtab[fd].owner # "free"
FreeFds == {fd \in FdSet : fdtab[fd].owner = "free"}
LowestFree == CHOOSE fd \in FreeFds : \A g \in FreeFds : fd <= g

\* av_strstart(filename, "ufile:", &filename): the prefix is skipped if there
StripScheme(fn) == [fn EXCEPT !.scheme = FALSE]

\* MultiByteToWideChar(CP_UTF8, MB_ERR_INVALID_CHARS, filename, -1, wfilename,
\* 4096): the number of wide characters written, terminator included, or 0
\* for an invalid byte sequence or a path that does not fit the buffer.
MultiByteToWideChar(fn) ==
  IF ~fn.valid THEN 0
  ELSE IF fn.len + 1 > WFILENAME_CHARS THEN 0
  ELSE fn.len + 1

\* flags & bit, for the one-bit masks URL_WRONLY and URL_RDWR
HasFlag(flags, bit) == (flags \div bit) % 2 = 1

\* The access word of ufile_open, as the three things the host does with it.
AccessOf(flags) ==
  IF HasFlag(flags, URL_RDWR)
    THEN [acc |-> "rw", creat |-> TRUE, trunc |-> TRUE]
  ELSE IF HasFlag(flags, URL_WRONLY)
    THEN [acc |-> "w", creat |-> TRUE, trunc |-> TRUE]
  ELSE [acc |-> "r", creat |-> FALSE, trunc |-> FALSE]

\* _wsopen_s(&fd, ...): host says whether the open is granted (hostErr = 0) or
\* fails with hostErr; with no free descriptor it fails with EMFILE.  fd is
\* set to -1 on every failure.
wsopen_s(hostErr) ==
  IF hostErr # 0 THEN [fd |-> -1, errno |-> hostErr]
  ELSE IF FreeFds = {} THEN [fd |-> -1, errno |-> EMFILE]
  ELSE [fd |-> LowestFree, errno |-> 0]

\* ufile_open as a function of its inputs and the host's answer:
\* the return value, the new priv_data, the descriptor opened (or -1).
ufile_open_stored_early(fn, flags, hostErr) ==
  LET nChars == MultiByteToWideChar(StripScheme(fn))
      o == wsopen_s(hostErr)
  IN IF nChars <= 0
       THEN [ret |-> AVERROR(ENOENT), priv |-> priv_data, fd |-> -1]
     ELSE IF o.fd = -1
       THEN [ret |-> AVERROR(o.errno), priv |-> o.fd, fd |-> -1]
     ELSE [ret |-> 0, priv |-> o.fd, fd |-> o.fd]

ufile_open_result(fn, flags, hostErr) ==
  LET nChars == MultiByteToWideChar(StripScheme(fn))
      o == wsopen_s(hostErr)
  IN IF nChars <= 0
       THEN [ret |-> AVERROR(ENOENT), priv |-> priv_data, fd |-> -1]
     ELSE IF o.fd = -1
       THEN [ret |-> AVERROR(o.errno), priv |-> priv_data, fd |-> -1]
     ELSE [ret |-> 0, priv |-> o.fd, fd |-> o.fd]

\* _lseeki64(fd, pos, whence): the resulting offset, or -1 with errno.
lseeki64(fd, pos, whence) ==
  IF ~IsOpenFd(fd) THEN [ret |-> -1, pos |-> 0, errno |-> EBADF]
  ELSE LET e == fdtab[fd]
           base == IF whence = SEEK_SET THEN 0
                   ELSE IF whence = SEEK_CUR THEN e.pos
                   ELSE Len(files[e.file])
       IN IF whence \notin {SEEK_SET, SEEK_CUR, SEEK_END} \/ base + pos < 0
            THEN [ret |-> -1, pos |-> e.pos, errno |-> EINVAL]
          ELSE [ret |-> base + pos, pos |-> base + pos, errno |-> 0]

\* _fstat64(fd, &st)
fstat64(fd) ==
  IF ~IsOpenFd(fd) THEN [ret |-> -1, st_size |-> 0, errno |-> EBADF]
  ELSE [ret |-> 0, st_size |-> Len(files[fdtab[fd].file]), errno |-> 0]

\* ufile_seek as a function: the return value, the descriptor's new position.
ufile_seek_size_by_seeking(fd, pos, whence) ==
  IF whence = AVSEEK_SIZE
    THEN lseeki64(fd, 0, SEEK_END)
  ELSE lseeki64(fd, pos, whence)

ufile_seek_result(fd, pos, whence) ==
  IF whence = AVSEEK_SIZE
    THEN LET st == fstat64(fd)
         IN [ret |-> IF st.ret < 0 THEN AVERROR(st.errno) ELSE st.st_size,
             pos |-> IF IsOpenFd(fd) THEN fdtab[fd].pos ELSE 0]
  ELSE lseeki64(fd, pos, whence)

\* _read(fd, buf, size)
host_read(fd, size) ==
  IF ~IsOpenFd(fd) \/ (IsOpenFd(fd) /\ fdtab[fd].acc = "w")
    THEN [ret |-> -1, data |-> <<>>, pos |-> 0, errno |-> EBADF]
  ELSE LET e == fdtab[fd]
           n == Min(size, Max(0, Len(files[e.file]) - e.pos))
       IN [ret |-> n, data |-> SubSeq(files[e.file], e.pos + 1, e.pos + n),
           pos |-> e.pos + n, errno |-> 0]

\* the content of a file after `buf` is written at offset `pos` (a gap past
\* the end reads as zero bytes)
WriteAt(content, pos, buf) ==
  LET newLen == Max(Len(content), pos + Len(buf))
  IN [i \in 1..newLen |->
        IF i > pos /\ i <= pos + Len(buf) THEN buf[i - pos]
        ELSE IF i <= Len(content) THEN content[i]
        ELSE 0]

\* _write(fd, buf, size)
host_write(fd, buf) ==
  IF ~IsOpenFd(fd) \/ (IsOpenFd(fd) /\ fdtab[fd].acc = "r")
    THEN [ret |-> -1, content |-> <<>>, pos |-> 0, errno |-> EBADF]
  ELSE LET e == fdtab[fd]
       IN [ret |-> Len(buf), content |-> WriteAt(files[e.file], e.pos, buf),
           pos |-> e.pos + Len(buf), errno |-> 0]

\* _close(fd)
host_close(fd) ==
  IF ~IsOpenFd(fd) THEN [ret |-> -1, errno |-> EBADF]
  ELSE [ret |-> 0, errno |-> 0]

(***************************************************************************)
(* History record of a ufile_* call.  fd is the descriptor value handed to *)
(* the host (for ufile_open: the descriptor the host opened; -1: none);    *)
(* live says whether that value named a descriptor this context had open   *)
(* when the call was made; pos0/pos1 are that descriptor's position before *)
(* and after; size0 the file's size before; nOpen0 the number of host      *)
(* descriptors this context held open before.  conv, hostOk, herr and priv0 describe a ufile_open:*)
(* whether the path converted, whether the host grants the open and the    *)
(* errno it sets if not, and priv_data before the call.                    *)
(***************************************************************************)
OwnedFds == {fd \in FdSet : fdtab[fd].owner = "ufile"}
NumOpen == Cardinality(OwnedFds)

Call(op, ret, fd, data, pos0, pos1, size0) ==
  [op |-> op, ret |-> ret, fd |-> fd,
   live |-> IsOpenFd(fd) /\ fdtab[fd].owner = "ufile",
   data |-> data, pos0 |-> pos0, pos1 |-> pos1, size0 |-> size0,
   nOpen0 |-> NumOpen, conv |-> TRUE, hostOk |-> TRUE, herr |-> 0,
   priv0 |-> priv_data]

PosOf(fd) == IF IsOpenFd(fd) THEN fdtab[fd].pos ELSE -1
SizeOf(fd) == IF IsOpenFd(fd) THEN Len(files[fdtab[fd].file]) ELSE -1

NoRes == [fn |-> "none"]

InitFile ==
  /\ priv_data = 0
  /\ fdtab = [fd \in FdSet |-> FreeSlot]
  /\ files = [f \in FileNames |-> IF f = "a" THEN <<1, 2>> ELSE <<9>>]
  /\ last = [op |-> "none", ret |-> 0, fd |-> -1, live |-> FALSE,
             data |-> <<>>, pos0 |-> -1, pos1 |-> -1, size0 |-> -1,
             nOpen0 |-> 0, conv |-> TRUE, hostOk |-> TRUE, herr |-> 0,
             priv0 |-> 0]
  /\ res = NoRes

\* "ufile:a", "a", a path with an invalid UTF-8 byte, a path of 4096 characters
FileNameInputs ==
  { [scheme |-> TRUE, valid |-> TRUE, len |-> 1],
    [scheme |-> FALSE, valid |-> FALSE, len |-> 1],
    [scheme |-> TRUE, valid |-> TRUE, len |-> WFILENAME_CHARS] }
FlagInputs == {URL_RDONLY, URL_WRONLY, URL_RDWR}
HostErrInputs == {0, EACCES}

ufile_open ==
  \E fn \in FileNameInputs, flags \in FlagInputs, hostErr \in HostErrInputs :
    LET r == ufile_open_result(fn, flags, hostErr)
        a == AccessOf(flags)
    IN /\ priv_data' = r.priv
       /\ fdtab' = IF r.fd = -1 THEN fdtab
                   ELSE [fdtab EXCEPT ![r.fd] =
                           [owner |-> "ufile", file |-> "a", pos |-> 0,
                            acc |-> a.acc]]
       /\ files' = IF r.fd # -1 /\ a.trunc
                     THEN [files EXCEPT !["a"] = <<>>] ELSE files
       /\ last' = [Call("open", r.ret, r.fd, <<>>, -1, -1, -1)
                     EXCEPT !.live = (r.fd # -1),
                            !.conv = MultiByteToWideChar(StripScheme(fn)) > 0,
                            !.hostOk = (wsopen_s(hostErr).fd # -1),
                            !.herr = wsopen_s(hostErr).errno]
       /\ UNCHANGED res

ufile_read ==
  \E size \in 1..2 :
    LET fd == priv_data
        r == host_read(fd, size)
    IN /\ fdtab' = IF r.ret < 0 THEN fdtab
                   ELSE [fdtab EXCEPT ![fd].pos = r.pos]
       /\ last' = Call("read", r.ret, fd, r.data, PosOf(fd),
                       IF r.ret < 0 THEN PosOf(fd) ELSE r.pos, SizeOf(fd))
       /\ UNCHANGED <<priv_data, files, res>>

ufile_write ==
  \E buf \in {<<7>>} :
    LET fd == priv_data
        r == host_write(fd, buf)
    IN /\ r.ret >= 0 => Len(r.content) <= MaxFileLen
       /\ fdtab' = IF r.ret < 0 THEN fdtab
                   ELSE [fdtab EXCEPT ![fd].pos = r.pos]
       /\ files' = IF r.ret < 0 THEN files
                   ELSE [files EXCEPT ![fdtab[fd].file] = r.content]
       /\ last' = Call("write", r.ret, fd, buf, PosOf(fd),
                       IF r.ret < 0 THEN PosOf(fd) ELSE r.pos, SizeOf(fd))
       /\ UNCHANGED <<priv_data, res>>

WhenceInputs == {SEEK_SET, SEEK_CUR, SEEK_END, AVSEEK_SIZE}

ufile_seek ==
  \E pos \in -1..2, whence \in WhenceInputs :
    LET fd == priv_data
        r == ufile_seek_result(fd, pos, whence)
    IN /\ r.pos <= MaxFileLen
       /\ fdtab' = IF IsOpenFd(fd) THEN [fdtab EXCEPT ![fd].pos = r.pos]
                   ELSE fdtab
       /\ last' = Call(IF whence = AVSEEK_SIZE THEN "size" ELSE "seek",
                       r.ret, fd, <<>>, PosOf(fd),
                       IF IsOpenFd(fd) THEN r.pos ELSE -1, SizeOf(fd))
       /\ UNCHANGED <<priv_data, files, res>>

ufile_get_handle ==
  /\ last' = Call("get_handle", priv_data, priv_data, <<>>, PosOf(priv_data),
                  PosOf(priv_data), SizeOf(priv_data))
  /\ UNCHANGED <<priv_data, fdtab, files, res>>

ufile_close ==
  LET fd == priv_data
      r == host_close(fd)
  IN /\ fdtab' = IF r.ret = 0 THEN [fdtab EXCEPT ![fd] = FreeSlot] ELSE fdtab
     /\ last' = Call("close", r.ret, fd, <<>>, PosOf(fd), -1, SizeOf(fd))
     /\ UNCHANGED <<priv_data, files, res>>

\* Another component of the process opens a file of its own: the host hands
\* out the lowest free descriptor number, its previous use notwithstanding.
HostOtherOpen ==
  /\ FreeFds # {}
  /\ fdtab' = [fdtab EXCEPT ![LowestFree] =
                 [owner |-> "other", file |-> "o", pos |-> 0, acc |-> "r"]]
  /\ UNCHANGED <<priv_data, files, last, res>>

HostOtherClose ==
  \E fd \in FdSet :
    /\ fdtab[fd].owner = "other"
    /\ fdtab' = [fdtab EXCEPT ![fd] = FreeSlot]
    /\ UNCHANGED <<priv_data, files, last, res>>

NextFile ==
  \/ ufile_open
  \/ ufile_read
  \/ ufile_write
  \/ ufile_seek
  \/ ufile_get_handle
  \/ ufile_close
  \/ HostOtherOpen
  \/ HostOtherClose

SpecFile == InitFile /\ [][NextFile]_vars

(***************************************************************************)
(* Text.  A string is a sequence of one-character strings; Ascii lists the  *)
(* printable characters in code order, so that Ord and Chr give the code   *)
(* arithmetic that the C code does on char values.                         *)
(***************************************************************************)
Ascii ==
  << " ", "!", "\"", "#", "$", "%", "&", "'", "(", ")", "*", "+", ",", "-", ".", "/",
     "0", "1", "2", "3", "4", "5", "6", "7", "8", "9", ":", ";", "<", "=", ">", "?",
     "@", "A", "B", "C", "D", "E", "F", "G", "H", "I", "J", "K", "L", "M", "N", "O",
     "P", "Q", "R", "S", "T", "U", "V", "W", "X", "Y", "Z", "[", "\\", "]", "^", "_",
     "grave", "a", "b", "c", "d", "e", "f", "g", "h", "i", "j", "k", "l", "m", "n", "o",
     "p", "q", "r", "s", "t", "u", "v", "w", "x", "y", "z", "{", "|", "}", "~" >>

AsciiBase == 32
Ord(c) == AsciiBase - 1 + CHOOSE i \in 1..Len(Ascii) : Ascii[i] = c
Chr(n) == Ascii[n - AsciiBase + 1]
IsPrintCode(n) == n >= AsciiBase /\ n < AsciiBase + Len(Ascii)

\* the null pointer, where a text is expected: no text is this sequence
NULL == <<"NULL">>

\* decimal digits of n >= 0, as printf's %d writes them
RECURSIVE Digits(_)
Digits(n) ==
  IF n < 10 THEN <<Chr(Ord("0") + n)>>
  ELSE Digits(n \div 10) \o <<Chr(Ord("0") + (n % 10))>>

Dec(n) == IF n < 0 THEN <<"-">> \o Digits(0 - n) ELSE Digits(n)

\* upper-case hexadecimal digits of n >= 0, as printf's %X writes them
RECURSIVE HexDigits(_)
HexDigits(n) ==
  LET d == n % 16
      c == IF d < 10 THEN Chr(Ord("0") + d) ELSE Chr(Ord("A") + d - 10)
  IN IF n < 16 THEN <<c>> ELSE HexDigits(n \div 16) \o <<c>>

\* printf's %04X
Hex04(n) ==
  LET h == HexDigits(n)
  IN IF Len(h) >= 4 THEN h ELSE [i \in 1..(4 - Len(h)) |-> "0"] \o h

\* strncmp(a, b, n) = 0: the strings agree up to the first n characters or
\* up to a terminator they share
RECURSIVE strncmp_eq(_, _, _)
strncmp_eq(a, b, n) ==
  IF n = 0 THEN TRUE
  ELSE IF a = <<>> \/ b = <<>> THEN a = <<>> /\ b = <<>>
  ELSE Head(a) = Head(b) /\ strncmp_eq(Tail(a), Tail(b), n - 1)

\* Uppercase the given string
up_char(c) ==
  IF Ord(c) <= Ord("z") /\ Ord(c) >= Ord("a")
    THEN Chr(Ord(c) - (Ord("a") - Ord("A")))
  ELSE c

up(str) == [i \in 1..Len(str) |-> up_char(str[i])]

(***************************************************************************)
(* get_bit_rate.  The product is computed in int: the multiplication keeps *)
(* the low 32 bits of the exact product, read as a signed value.  Numbers  *)
(* wider than an int are sequences of base-256 digits, low digit first.    *)
(***************************************************************************)
Base == 256

\* the digits of n >= 0, with no leading zero digit
RECURSIVE ToDigits(_)
ToDigits(n) == IF n = 0 THEN <<>> ELSE <<n % Base>> \o ToDigits(n \div Base)

\* the four digits of the two's complement representation of an int
Int32Digits(n) ==
  << n % Base, (n \div Base) % Base, (n \div (Base * Base)) % Base,
     (n \div (Base * Base * Base)) % Base >>

\* digits a times one digit d, plus carry
RECURSIVE MulDigit(_, _, _)
MulDigit(a, d, carry) ==
  IF a = <<>> THEN (IF carry = 0 THEN <<>> ELSE ToDigits(carry))
  ELSE LET v == Head(a) * d + carry
       IN <<v % Base>> \o MulDigit(Tail(a), d, v \div Base)

RECURSIVE AddDigits(_, _, _)
AddDigits(a, b, carry) ==
  IF a = <<>> /\ b = <<>> THEN (IF carry = 0 THEN <<>> ELSE <<carry>>)
  ELSE LET x == IF a = <<>> THEN 0 ELSE Head(a)
           y == IF b = <<>> THEN 0 ELSE Head(b)
           v == x + y + carry
       IN <<v % Base>>
            \o AddDigits(IF a = <<>> THEN <<>> ELSE Tail(a),
                         IF b = <<>> THEN <<>> ELSE Tail(b), v \div Base)

\* the exact product of two digit sequences
RECURSIVE MulDigits(_, _)
MulDigits(a, b) ==
  IF b = <<>> THEN <<>>
  ELSE AddDigits(MulDigit(a, Head(b), 0), <<0>> \o MulDigits(a, Tail(b)), 0)

\* digits without leading zero digits
RECURSIVE Normalize(_)
Normalize(a) ==
  IF a = <<>> THEN <<>>
  ELSE IF a[Len(a)] = 0 THEN Normalize(SubSeq(a, 1, Len(a) - 1))
  ELSE a

\* the int whose two's complement representation is the low four digits
Int32OfDigits(a) ==
  LET d(k) == IF k <= Len(a) THEN a[k] ELSE 0
      top == IF d(4) >= Base \div 2 THEN d(4) - Base ELSE d(4)
  IN ((top * Base + d(3)) * Base + d(2)) * Base + d(1)

\* a * b as the int multiplication computes it
IMul32(a, b) == Int32OfDigits(MulDigits(Int32Digits(a), Int32Digits(b)))

get_bit_rate(ctx) ==
  IF ctx.codec_type \in {"VIDEO", "DATA", "SUBTITLE", "ATTACHMENT"}
    THEN ctx.bit_rate
  ELSE IF ctx.codec_type = "AUDIO"
    THEN IF ctx.bits_per_sample # 0
           THEN IMul32(IMul32(ctx.sample_rate, ctx.channels),
                       ctx.bits_per_sample)
         ELSE ctx.bit_rate
  ELSE 0

(***************************************************************************)
(* get_stream_language.  meta_language is the value of the metadata entry  *)
(* "language" (NULL: no entry); language is the stream's char[4] field.    *)
(* With neither, lang stays NULL and strncmp(NULL, "und", 3) reads through *)
(* a null pointer: undefined behaviour, whose outcome `ub` the build       *)
(* decides ("fault": the read traps; "absent": the call comes back NULL).  *)
(***************************************************************************)
S_und == <<"u", "n", "d">>

SelectedLang(st) ==
  IF st.meta_language # NULL THEN st.meta_language
  ELSE IF Len(st.language) > 0 THEN st.language
  ELSE NULL

get_stream_language(st, ub) ==
  LET lang == SelectedLang(st)
  IN IF lang = NULL
       THEN [status |-> IF ub = "fault" THEN "fault" ELSE "ok", lang |-> NULL]
     ELSE IF ~strncmp_eq(lang, S_und, 3)
       THEN [status |-> "ok", lang |-> lang]
     ELSE [status |-> "ok", lang |-> NULL]

(***************************************************************************)
(* get_codec_name.                                                         *)
(***************************************************************************)
nice_codec_names ==
  << [id |-> "CODEC_ID_VC1", name |-> <<"V", "C", "-", "1">>],
     [id |-> "CODEC_ID_MPEG2VIDEO", name |-> <<"M", "P", "E", "G", "-", "2">>],
     [id |-> "CODEC_ID_TRUEHD", name |-> <<"T", "r", "u", "e", "H", "D">>],
     [id |-> "CODEC_ID_AC3", name |-> <<"A", "C", "-", "3">>],
     [id |-> "CODEC_ID_EAC3", name |-> <<"E", "-", "A", "C", "3">>],
     [id |-> "CODEC_ID_AAC_LATM", name |-> <<"A", "A", "C", " ", "(", "L", "A", "T", "M", ")">>],
     [id |-> "CODEC_ID_TEXT", name |-> <<"T", "e", "x", "t">>],
     [id |-> "CODEC_ID_SRT", name |-> <<"S", "R", "T">>],
     [id |-> "CODEC_ID_HDMV_PGS_SUBTITLE", name |-> <<"P", "G", "S">>],
     [id |-> "CODEC_ID_DVD_SUBTITLE", name |-> <<"D", "V", "D", "/", "V", "O", "B">>],
     [id |-> "CODEC_ID_DVB_SUBTITLE", name |-> <<"D", "V", "B">>],
     [id |-> "CODEC_ID_SSA", name |-> <<"S", "S", "A", "/", "A", "S", "S">>],
     [id |-> "CODEC_ID_XSUB", name |-> <<"X", "S", "U", "B">>] >>

\* sizeof(struct s_codec_names): a 4-byte enum and a 4-byte pointer
SizeofEntry == 8
\* sizeof(nice_codec_names), the bound of the lookup loop
sizeof_nice_codec_names == Len(nice_codec_names) * SizeofEntry

FF_LEVEL_UNKNOWN == -99
L_BUF_SIZE == 5

\* a pointer that is not the address of a string
WILD == <<"WILD">>
NoStray == [at |-> -1, id |-> "JUNK", name |-> WILD]

\* nice_codec_names[i] as the loop reads it: past the last entry it reads
\* whatever the linker placed after the array.  `stray` is what that memory
\* holds: at index stray.at, words that read as the entry (stray.id,
\* stray.name); everywhere else, words that equal no codec id.
MemEntry(i, stray) ==
  IF i < Len(nice_codec_names) THEN nice_codec_names[i + 1]
  ELSE IF i = stray.at THEN [id |-> stray.id, name |-> stray.name]
  ELSE [id |-> "JUNK", name |-> WILD]

\* for (int i = 0; i < sizeof(nice_codec_names); ++i): the name selected and
\* the highest index i at which nice_codec_names[i] was read
RECURSIVE ScanNiceNames(_, _, _)
ScanNiceNames(i, id, stray) ==
  IF ~(i < sizeof_nice_codec_names) THEN [nice_name |-> NULL, read |-> i - 1]
  ELSE IF MemEntry(i, stray).id = id
    THEN [nice_name |-> MemEntry(i, stray).name, read |-> i]
  ELSE ScanNiceNames(i + 1, id, stray)

\* sprintf's "%.1f" of level / 10.0
FormatLevel(level) ==
  LET a == IF level < 0 THEN 0 - level ELSE level
  IN (IF level < 0 THEN <<"-">> ELSE <<>>)
       \o Digits(a \div 10) \o <<".">> \o Digits(a % 10)

\* av_get_codec_tag_string: the tag's four bytes, low byte first, each as its
\* character if printable and as [<decimal>] if not
TagByte(tag, k) == (tag \div (256 ^ k)) % 256
TagByteText(b) ==
  IF IsPrintCode(b) THEN <<Chr(b)>> ELSE <<"[">> \o Dec(b) \o <<"]">>
av_get_codec_tag_string(tag) ==
  TagByteText(TagByte(tag, 0)) \o TagByteText(TagByte(tag, 1))
    \o TagByteText(TagByte(tag, 2)) \o TagByteText(TagByte(tag, 3))

S_H264sp == <<"H", ".", "2", "6", "4", " ">>

\* The result of get_codec_name: status "ok" with the name; "abort" when
\* sprintf_s's invalid-parameter handler ends the process; "fault" when a
\* wild nice_name pointer is read.  scan_read is the highest index the lookup
\* loop read, l_need the bytes "%.1f" needs in l_buf (0: not formatted).
get_codec_name(ctx, env) ==
  LET id == IF ctx.codec_type = "SUBTITLE" THEN ctx.opaque ELSE ctx.codec_id
      p == ctx.decoder          \* p->name, or NULL when p is NULL
      profile == IF p # NULL THEN ctx.profile_name ELSE NULL
      scan == ScanNiceNames(0, id, env.stray)
      nice_name == scan.nice_name
      R(status, name, need) ==
        [status |-> status, name |-> name, scan_read |-> scan.read,
         nice_name |-> nice_name, l_need |-> need]
  IN IF id = "CODEC_ID_H264" /\ profile # NULL
       THEN IF ctx.level # 0 /\ ctx.level # FF_LEVEL_UNKNOWN /\ ctx.level < 1000
              THEN LET l == FormatLevel(ctx.level)
                   IN IF Len(l) + 1 > L_BUF_SIZE
                        THEN IF env.handler = "abort"
                               THEN R("abort", <<>>, Len(l) + 1)
                             ELSE R("ok", S_H264sp \o profile \o <<" ", "L">>,
                                    Len(l) + 1)
                      ELSE R("ok", S_H264sp \o profile \o <<" ", "L">> \o l,
                             Len(l) + 1)
            ELSE R("ok", S_H264sp \o profile, 0)
     ELSE IF id = "CODEC_ID_DTS" /\ profile # NULL
       THEN R("ok", profile, 0)
     ELSE IF nice_name # NULL
       THEN IF nice_name = WILD THEN R("fault", <<>>, 0)
            ELSE R("ok", nice_name, 0)
     ELSE IF p # NULL
       THEN R("ok", up(p), 0)
     ELSE IF ctx.codec_name # <<>>
       THEN R("ok", up(ctx.codec_name), 0)
     ELSE R("ok", av_get_codec_tag_string(ctx.codec_tag) \o <<" ", "/", " ">>
                    \o <<"0", "x">> \o Hex04(ctx.codec_tag), 0)

(***************************************************************************)
(* lavf_describe_stream.                                                   *)
(***************************************************************************)
AV_DISPOSITION_DEFAULT == 1
AV_DISPOSITION_FORCED == 64
AV_DISPOSITION_HEARING_IMPAIRED == 128

\* the CodecID values that show_sample_fmt's range test separates
CodecIdNum(id) ==
  CASE id = "CODEC_ID_PCM_S16LE" -> 65536
    [] id = "CODEC_ID_MP3" -> 86017
    [] id = "CODEC_ID_AC3" -> 86019
    [] id = "CODEC_ID_DTS" -> 86020
    [] id = "CODEC_ID_H264" -> 28
    [] OTHER -> 0

show_sample_fmt(codec_id) ==
  IF CodecIdNum(codec_id) >= 65536 /\ CodecIdNum(codec_id) < 73728 THEN TRUE
  ELSE IF codec_id \in {"CODEC_ID_MLP", "CODEC_ID_TRUEHD", "CODEC_ID_FLAC",
                        "CODEC_ID_WMALOSSLESS", "CODEC_ID_WAVPACK",
                        "CODEC_ID_MP4ALS", "CODEC_ID_ALAC"} THEN TRUE
  ELSE FALSE

S_open == <<" ", "(">>
S_comma == <<",", " ">>
S_kbs == <<" ", "k", "b", "/", "s">>

\* the "Title/Language" segment of the three stream templates
TitleLang(title, lang, sLanguage) ==
  IF title # NULL /\ lang # NULL
    THEN title \o <<" ", "[">> \o lang \o <<"]">> \o S_open
  ELSE IF title # NULL \/ lang # NULL
    THEN (IF title # NULL THEN title ELSE sLanguage) \o S_open
  ELSE <<>>

\* the "Closing tag"
Closing(title, lang) ==
  IF title # NULL \/ lang # NULL THEN <<")">> ELSE <<>>

Bitrate(bitrate) ==
  IF bitrate > 0 THEN S_comma \o Dec(bitrate \div 1000) \o S_kbs ELSE <<>>

VideoLine(st, enc, title, lang, sLanguage, codec_name, bitrate) ==
  <<"V", ":", " ">>
    \o TitleLang(title, lang, sLanguage)
    \o codec_name
    \o (IF enc.pix_fmt_name # NULL THEN S_comma \o enc.pix_fmt_name ELSE <<>>)
    \o (IF enc.width # 0
          THEN S_comma \o Dec(enc.width) \o <<"x">> \o Dec(enc.height)
        ELSE <<>>)
    \o Bitrate(bitrate)
    \o Closing(title, lang)

AudioLine(st, enc, title, lang, sLanguage, codec_name, bitrate) ==
  <<"A", ":", " ">>
    \o TitleLang(title, lang, sLanguage)
    \o codec_name
    \o (IF enc.sample_rate # 0
          THEN S_comma \o Dec(enc.sample_rate) \o <<" ", "H", "z">>
        ELSE <<>>)
    \o S_comma \o enc.channel_string
    \o (IF show_sample_fmt(enc.codec_id) /\ enc.sample_bits # 0
          THEN (IF enc.sample_fmt \in {"AV_SAMPLE_FMT_FLT", "AV_SAMPLE_FMT_DBL"}
                  THEN <<",", " ", "f", "p">> ELSE <<",", " ", "s">>)
                 \o Dec(enc.sample_bits)
        ELSE <<>>)
    \o Bitrate(bitrate)
    \o Closing(title, lang)
    \o (IF HasFlag(st.disposition, AV_DISPOSITION_DEFAULT)
          THEN <<" ", "[", "d", "e", "f", "a", "u", "l", "t", "]">> ELSE <<>>)

SubtitleLine(st, enc, title, lang, sLanguage, codec_name, bitrate) ==
  <<"S", ":", " ">>
    \o TitleLang(title, lang, sLanguage)
    \o codec_name
    \o Closing(title, lang)
    \o (IF HasFlag(st.disposition, AV_DISPOSITION_FORCED)
           \/ HasFlag(st.disposition, AV_DISPOSITION_HEARING_IMPAIRED)
          THEN <<" ", "[">>
                 \o (IF HasFlag(st.disposition, AV_DISPOSITION_FORCED)
                       THEN <<"f", "o", "r", "c", "e", "d">> ELSE <<>>)
                 \o (IF HasFlag(st.disposition, AV_DISPOSITION_HEARING_IMPAIRED)
                       THEN (IF HasFlag(st.disposition, AV_DISPOSITION_FORCED)
                               THEN S_comma ELSE <<>>)
                              \o <<"h", "e", "a", "r", "i", "n", "g", " ", "i", "m", "p", "a", "i", "r", "e", "d">>
                     ELSE <<>>)
                 \o <<"]">>
        ELSE <<>>)

UnknownLine(st) == <<"U", "n", "k", "n", "o", "w", "n", ":", " ", "S", "t", "r", "e", "a", "m", " ", "#">> \o Dec(st.index)

\* MultiByteToWideChar(CP_UTF8, 0, info, -1, buf, len): every character of
\* the line as a wide character, then the terminator
WNUL == [wc |-> "NUL"]
Widen(info) == [k \in 1..Len(info) |-> [wc |-> info[k]]] \o <<WNUL>>

\* *ppszName: not written, written with a null pointer, or with a buffer
NotWritten == [state |-> "unwritten", wide |-> <<>>]
NullBuffer == [state |-> "null", wide |-> <<>>]
Buffer(w) == [state |-> "buffer", wide |-> w]

\* a call that did not come back
Crashed(why) ==
  [hr |-> "none", status |-> why, out |-> NotWritten, info |-> <<>>,
   codec_name |-> <<>>]

\* lavf_describe_stream(pStream, ppszName).  a.stream_null / a.out_null say
\* which argument is null; a.st is *pStream; a.env and a.ub are the outcomes
\* of the undefined steps of the helpers; a.probe is ProbeLangForLanguage's
\* answer; a.alloc_ok is whether CoTaskMemAlloc has memory.
lavf_describe_stream(a) ==
  IF a.stream_null \/ a.out_null
    THEN [hr |-> "E_POINTER", status |-> "ok", out |-> NotWritten,
          info |-> <<>>, codec_name |-> <<>>]
  ELSE
    LET st == a.st
        enc == st.codec
        cn == get_codec_name(enc, a.env)
        codec_name == cn.name
        gl == get_stream_language(st, a.ub)
        lang == gl.lang
        sLanguage == IF lang # NULL
                       THEN (IF a.probe = <<>> THEN lang ELSE a.probe)
                     ELSE <<>>
        title == st.meta_title
        bitrate == get_bit_rate(enc)
        info ==
          CASE enc.codec_type = "VIDEO" ->
                 VideoLine(st, enc, title, lang, sLanguage, codec_name, bitrate)
            [] enc.codec_type = "AUDIO" ->
                 AudioLine(st, enc, title, lang, sLanguage, codec_name, bitrate)
            [] enc.codec_type = "SUBTITLE" ->
                 SubtitleLine(st, enc, title, lang, sLanguage, codec_name,
                              bitrate)
            [] OTHER -> UnknownLine(st)
    IN IF cn.status # "ok" THEN Crashed(cn.status)
       ELSE IF gl.status # "ok" THEN Crashed(gl.status)
       ELSE [hr |-> "S_OK", status |-> "ok",
             out |-> IF a.alloc_ok THEN Buffer(Widen(info)) ELSE NullBuffer,
             info |-> info, codec_name |-> codec_name]

(***************************************************************************)
(* Inputs of the helpers.                                                  *)
(***************************************************************************)
T_High == <<"H", "i", "g", "h">>
T_DTSHDMA == <<"D", "T", "S", "-", "H", "D", " ", "M", "A">>
T_eng == <<"e", "n", "g">>
T_fre == <<"f", "r", "e">>
T_undx == <<"u", "n", "d", "x">>
T_pcm == <<"p", "c", "m", "_", "b", "l", "u", "r", "a", "y">>

TableIds == {nice_codec_names[k].id : k \in 1..Len(nice_codec_names)}
OtherIds == {"CODEC_ID_H264", "CODEC_ID_DTS", "CODEC_ID_MP3", "CODEC_ID_NONE"}

\* avcodec_find_decoder(id): the registry's decoder for id, if it has one
DecoderName(id) ==
  CASE id = "CODEC_ID_H264" -> <<"h", "2", "6", "4">>
    [] id = "CODEC_ID_DTS" -> <<"d", "c", "a">>
    [] id = "CODEC_ID_MP3" -> <<"m", "p", "3">>
    [] id = "CODEC_ID_VC1" -> <<"v", "c", "1">>
    [] id = "CODEC_ID_AC3" -> <<"a", "c", "3">>
    [] OTHER -> <<"d", "e", "c", "_", "x">>
DecoderInputs(id) == {NULL, DecoderName(id)}

\* 0x34363248 ("H264") and 0
TagInputs == {875967048, 0}

LevelInputs ==
  {-1000, -100, -99, -98, -10, -1, 0, 1, 9, 10, 41, 51, 99, 100, 999, 1000,
   1001}

CodecCtx(type, id, opq, dec, prof, level, cname, tag) ==
  [codec_type |-> type, codec_id |-> id, opaque |-> opq, decoder |-> dec,
   profile_name |-> prof, level |-> level, codec_name |-> cname,
   codec_tag |-> tag]

\* H.264 contexts over every level, and contexts of every identity
CodecCtxInputs ==
  { CodecCtx("VIDEO", "CODEC_ID_H264", "NONE", dec, prof, level, <<>>, 0) :
      dec \in DecoderInputs("CODEC_ID_H264"), prof \in {NULL, T_High},
      level \in LevelInputs }
  \cup
  { CodecCtx(t[1], t[2], t[3], dec, prof, 41, cname, tag) :
      t \in { <<"AUDIO", id, "NONE">> : id \in TableIds \cup OtherIds }
              \cup { <<"SUBTITLE", "CODEC_ID_TEXT", id>> :
                       id \in {"CODEC_ID_XSUB", "CODEC_ID_SRT", "CODEC_ID_MP3"} },
      dec \in {NULL, DecoderName("CODEC_ID_MP3")},
      prof \in {NULL, T_DTSHDMA},
      cname \in {<<>>, T_pcm}, tag \in TagInputs }

StrayInputs ==
  {NoStray}
  \cup [at : {Len(nice_codec_names), sizeof_nice_codec_names - 1},
        id : {"CODEC_ID_MP3", "CODEC_ID_H264"},
        name : {<<"?">>, <<>>, WILD}]

EnvInputs == [stray : StrayInputs, handler : {"abort", "return"}]

BitRateCtxInputs ==
  [codec_type : {"UNKNOWN", "VIDEO", "AUDIO", "DATA", "SUBTITLE",
                 "ATTACHMENT", "NB"},
   bit_rate : {0, 192000, 2147483647},
   sample_rate : {0, 48000, 1073741824},
   channels : {0, 2, 6},
   bits_per_sample : {0, 16, 32}]

LangInputs ==
  [meta_language : {NULL, T_eng, S_und, T_undx},
   language : {<<>>, T_fre, S_und}]

UBInputs == {"fault", "absent"}

T_title == <<"C", "o", "m", "m", "e", "n", "t", "a", "r", "y">>
T_English == <<"E", "n", "g", "l", "i", "s", "h">>

\* an AVCodecContext as lavf_describe_stream reads it
Enc(type, id, opq, dec, prof, level, pix, w, h, br, sr, ch, chs, bps, sbits, sfmt) ==
  [codec_type |-> type, codec_id |-> id, opaque |-> opq, decoder |-> dec,
   profile_name |-> prof, level |-> level, codec_name |-> <<>>,
   codec_tag |-> 0, pix_fmt_name |-> pix, width |-> w, height |-> h,
   bit_rate |-> br, sample_rate |-> sr, channels |-> ch,
   channel_string |-> chs, bits_per_sample |-> bps, sample_bits |-> sbits,
   sample_fmt |-> sfmt]

EncInputs ==
  { Enc("VIDEO", "CODEC_ID_H264", "NONE", DecoderName("CODEC_ID_H264"),
        T_High, 41, <<"y", "u", "v", "4", "2", "0", "p">>, 1920, 1080, 5000000, 0, 0, <<>>, 0, 0,
        "AV_SAMPLE_FMT_NONE"),
    Enc("VIDEO", "CODEC_ID_H264", "NONE", DecoderName("CODEC_ID_H264"),
        T_High, -100, NULL, 0, 0, 0, 0, 0, <<>>, 0, 0, "AV_SAMPLE_FMT_NONE"),
    Enc("VIDEO", "CODEC_ID_VC1", "NONE", DecoderName("CODEC_ID_VC1"),
        NULL, 0, NULL, 0, 0, 0, 0, 0, <<>>, 0, 0, "AV_SAMPLE_FMT_NONE"),
    Enc("AUDIO", "CODEC_ID_AC3", "NONE", DecoderName("CODEC_ID_AC3"),
        NULL, 0, NULL, 0, 0, 448000, 48000, 6, <<"5", ".", "1">>, 0, 0,
        "AV_SAMPLE_FMT_S16"),
    Enc("AUDIO", "CODEC_ID_PCM_S16LE", "NONE", <<"p", "c", "m", "_", "s", "1", "6", "l", "e">>,
        NULL, 0, NULL, 0, 0, 0, 48000, 2, <<"s", "t", "e", "r", "e", "o">>, 16, 16,
        "AV_SAMPLE_FMT_S16"),
    Enc("AUDIO", "CODEC_ID_TRUEHD", "NONE", <<"t", "r", "u", "e", "h", "d">>,
        NULL, 0, NULL, 0, 0, 0, 0, 2, <<"s", "t", "e", "r", "e", "o">>, 0, 32,
        "AV_SAMPLE_FMT_FLT"),
    Enc("AUDIO", "CODEC_ID_MP3", "NONE", DecoderName("CODEC_ID_MP3"),
        NULL, 0, NULL, 0, 0, 128000, 44100, 2, <<"s", "t", "e", "r", "e", "o">>, 0, 0,
        "AV_SAMPLE_FMT_S16"),
    Enc("SUBTITLE", "CODEC_ID_TEXT", "CODEC_ID_SRT", NULL,
        NULL, 0, NULL, 0, 0, 0, 0, 0, <<>>, 0, 0, "AV_SAMPLE_FMT_NONE"),
    Enc("DATA", "CODEC_ID_NONE", "NONE", NULL,
        NULL, 0, NULL, 0, 0, 0, 0, 0, <<>>, 0, 0, "AV_SAMPLE_FMT_NONE") }

DispositionInputs ==
  {0, AV_DISPOSITION_DEFAULT, AV_DISPOSITION_FORCED,
   AV_DISPOSITION_HEARING_IMPAIRED,
   AV_DISPOSITION_FORCED + AV_DISPOSITION_HEARING_IMPAIRED}

StreamInputs ==
  [codec : EncInputs, meta_title : {NULL, T_title},
   meta_language : {NULL, T_eng, S_und, T_undx}, language : {<<>>, T_fre},
   index : {2}, disposition : DispositionInputs]

DescribeEnvInputs ==
  [stray : {NoStray,
            [at |-> Len(nice_codec_names), id |-> "CODEC_ID_MP3",
             name |-> WILD]},
   handler : {"abort", "return"}]

DescribeInputs ==
  [stream_null : {FALSE}, out_null : {FALSE}, st : StreamInputs,
   env : DescribeEnvInputs, ub : UBInputs, probe : {<<>>, T_English},
   alloc_ok : BOOLEAN]
  \cup
  [stream_null : BOOLEAN, out_null : BOOLEAN,
   st : {s \in StreamInputs : s.meta_title = NULL /\ s.disposition = 0
                                /\ s.meta_language = T_eng},
   env : {[stray |-> NoStray, handler |-> "abort"]}, ub : {"fault"},
   probe : {<<>>}, alloc_ok : BOOLEAN]

InitDesc ==
  /\ priv_data = 0
  /\ fdtab = [fd \in FdSet |-> FreeSlot]
  /\ files = [f \in FileNames |-> <<>>]
  /\ last = [op |-> "none"]
  /\ res = NoRes

Idle == res = NoRes
FileUnchanged == UNCHANGED <<priv_data, fdtab, files, last>>

GetBitRate ==
  /\ Idle
  /\ \E ctx \in BitRateCtxInputs :
       res' = [fn |-> "get_bit_rate", in |-> ctx, out |-> get_bit_rate(ctx)]
  /\ FileUnchanged

GetStreamLanguage ==
  /\ Idle
  /\ \E st \in LangInputs, ub \in UBInputs :
       res' = [fn |-> "get_stream_language", in |-> st,
               out |-> get_stream_language(st, ub)]
  /\ FileUnchanged

GetCodecName ==
  /\ Idle
  /\ \E ctx \in CodecCtxInputs, env \in EnvInputs :
       res' = [fn |-> "get_codec_name", in |-> ctx, env |-> env,
               out |-> get_codec_name(ctx, env)]
  /\ FileUnchanged

DescribeStream ==
  /\ Idle
  /\ \E a \in DescribeInputs :
       res' = [fn |-> "lavf_describe_stream", in |-> a,
               out |-> lavf_describe_stream(a)]
  /\ FileUnchanged

\* the caller takes the result
Return ==
  /\ ~Idle
  /\ res' = NoRes
  /\ FileUnchanged

NextDesc ==
  \/ GetBitRate
  \/ GetStreamLanguage
  \/ GetCodecName
  \/ DescribeStream
  \/ Return

SpecDesc == InitDesc /\ [][NextDesc]_vars

(***************************************************************************)
(* Properties of the ufile protocol, checked under SpecFile.                *)
(***************************************************************************)
\* C1: on an open handle on a file of size N at position p,
\* ufile_seek(pos, AVSEEK_SIZE) returns N for every pos and leaves the
\* position at p; a read issued next returns the bytes that start at the
\* position the handle had before the size query.
C1_SizeQueryKeepsPosition ==
  [][ /\ (last'.op = "size" /\ last'.live) =>
           /\ last'.ret = last'.size0
           /\ last'.pos1 = last'.pos0
           /\ fdtab'[last'.fd].pos = fdtab[last'.fd].pos
      /\ (last.op = "size" /\ last.live /\ last'.op = "read"
            /\ last'.ret >= 0) =>
           /\ last'.fd = last.fd
           /\ last'.pos0 = last.pos0
           /\ last'.data = SubSeq(files[fdtab[last.fd].file], last.pos0 + 1,
                                  last.pos0 + last'.ret)
           /\ (last'.ret > 0 \/ last.pos0 >= last.size0)
    ]_vars

\* a size query answered N = 2 on a handle that stood, and still stands, at 1
C1_Witness ==
  /\ last.op = "size" /\ last.live
  /\ last.pos0 = 1 /\ last.ret = 2
  /\ fdtab[last.fd].pos = 1

\* C2: after ufile_close, no read, write, seek, get_handle or second close
\* hands the host, or returns, the closed handle value: every such call made
\* with a stored handle uses a descriptor this context has open.  (priv_data
\* is 0 until an open succeeds, and descriptors start at FirstFd, so a
\* non-zero value that is not open here is one this context closed.)
C2_NoUseAfterClose ==
  (last.op \in {"read", "write", "seek", "size", "get_handle", "close"}
     /\ last.fd # 0) => last.live

\* C3: ufile_open returns 0 and stores the handle exactly when the path
\* converts and the host grants the open; a failed conversion returns
\* AVERROR(ENOENT), a failed host open AVERROR(errno), and on both failures
\* priv_data is as before and no further host descriptor is open.
C3_OpenStoresOnlyOnSuccess ==
  last.op = "open" =>
    /\ (last.ret = 0) <=> (last.conv /\ last.hostOk)
    /\ last.ret = 0 =>
         /\ last.fd \in FdSet
         /\ priv_data = last.fd
         /\ fdtab[last.fd].owner = "ufile"
         /\ NumOpen = last.nOpen0 + 1
    /\ ~last.conv => last.ret = AVERROR(ENOENT)
    /\ (last.conv /\ ~last.hostOk) =>
         (last.ret = AVERROR(last.herr) /\ last.ret < 0)
    /\ last.ret # 0 =>
         /\ priv_data = last.priv0
         /\ last.fd = -1
         /\ NumOpen = last.nOpen0

\* a host open refused with EACCES on a context that holds an open handle
C3_Witness ==
  /\ last.op = "open" /\ last.conv /\ ~last.hostOk
  /\ last.ret = AVERROR(EACCES)
  /\ priv_data = last.priv0 /\ priv_data \in OwnedFds

(***************************************************************************)
(* Properties of the descriptor helpers, checked under SpecDesc.           *)
(***************************************************************************)
EffectiveId(ctx) ==
  IF ctx.codec_type = "SUBTITLE" THEN ctx.opaque ELSE ctx.codec_id
ProfileOf(ctx) == IF ctx.decoder # NULL THEN ctx.profile_name ELSE NULL
TableName(id) ==
  nice_codec_names[CHOOSE k \in 1..Len(nice_codec_names) :
                     nice_codec_names[k].id = id].name
IsPrefix(p, t) == Len(p) <= Len(t) /\ SubSeq(t, 1, Len(p)) = p
CountChar(t, c) == Cardinality({k \in 1..Len(t) : t[k] = c})

\* C4: get_codec_name always returns non-empty text, chosen by the first
\* applicable rule: H.264 with a profile gives "H.264 " + profile (+ level);
\* DTS with a profile gives the profile; an identity of the nice-name table
\* gives the table's name; else the decoder's name upper-cased; else the
\* embedded codec name upper-cased; else tag string, " / 0x", hex tag.
C4_CodecNamePriority ==
  res.fn = "get_codec_name" =>
    LET ctx == res.in
        id == EffectiveId(ctx)
        prof == ProfileOf(ctx)
        name == res.out.name
    IN /\ res.out.status = "ok"
       /\ name # <<>>
       /\ IF id = "CODEC_ID_H264" /\ prof # NULL
            THEN IsPrefix(S_H264sp \o prof, name)
          ELSE IF id = "CODEC_ID_DTS" /\ prof # NULL
            THEN name = prof
          ELSE IF id \in TableIds
            THEN name = TableName(id)
          ELSE IF ctx.decoder # NULL
            THEN name = up(ctx.decoder)
          ELSE IF ctx.codec_name # <<>>
            THEN name = up(ctx.codec_name)
          ELSE name = av_get_codec_tag_string(ctx.codec_tag)
                        \o <<" ", "/", " ", "0", "x">> \o Hex04(ctx.codec_tag)

\* C5: for H.264 with a profile, " L" + level/10 to one decimal is appended
\* exactly when the level is non-zero, not FF_LEVEL_UNKNOWN and below 1000,
\* and for every such level the formatted text fits the 5-byte buffer.
C5_LevelSuffixFits ==
  (res.fn = "get_codec_name" /\ EffectiveId(res.in) = "CODEC_ID_H264"
     /\ ProfileOf(res.in) # NULL) =>
    LET level == res.in.level
        usable == level # 0 /\ level # FF_LEVEL_UNKNOWN /\ level < 1000
    IN /\ usable => res.out.l_need <= L_BUF_SIZE
       /\ res.out.status = "ok"
       /\ res.out.name =
            S_H264sp \o ProfileOf(res.in)
              \o (IF usable THEN <<" ", "L">> \o FormatLevel(level) ELSE <<>>)

\* C6: get_stream_language returns the metadata "language" entry if there is
\* one, else the non-empty stream language field; the result is absent
\* exactly when there is no language or the selected value is exactly "und",
\* and a stream with no language yields absent without failing.
C6_LanguageSelection ==
  res.fn = "get_stream_language" =>
    LET sel == SelectedLang(res.in)
    IN /\ res.out.status = "ok"
       /\ res.out.lang = IF sel = NULL \/ sel = S_und THEN NULL ELSE sel

\* C7: for video, audio and subtitle streams the line is the type tag, then
\* "<title> [<code>] (" with a title and a language, "<title> (" with a title
\* only, "<language name or code> (" with a language only, nothing with
\* neither; then the codec name; and ")" exactly once after it exactly when
\* "(" was written.  (Checked on the calls whose codec name was resolved.)
C7_TitleLanguagePrefix ==
  (res.fn = "lavf_describe_stream" /\ ~res.in.stream_null /\ ~res.in.out_null
     /\ res.in.st.codec.codec_type \in {"VIDEO", "AUDIO", "SUBTITLE"}
     /\ get_codec_name(res.in.st.codec, res.in.env).status = "ok") =>
    LET st == res.in.st
        sel == SelectedLang(st)
        lang == IF sel = NULL \/ sel = S_und THEN NULL ELSE sel
        title == st.meta_title
        shown == IF res.in.probe = <<>> THEN lang ELSE res.in.probe
        tag == CASE st.codec.codec_type = "VIDEO" -> <<"V", ":", " ">>
                 [] st.codec.codec_type = "AUDIO" -> <<"A", ":", " ">>
                 [] OTHER -> <<"S", ":", " ">>
        prefix == IF title # NULL /\ lang # NULL
                    THEN title \o <<" ", "[">> \o lang \o <<"]", " ", "(">>
                  ELSE IF title # NULL THEN title \o <<" ", "(">>
                  ELSE IF lang # NULL THEN shown \o <<" ", "(">>
                  ELSE <<>>
        head == tag \o prefix \o res.out.codec_name
        line == res.out.info
    IN /\ res.out.status = "ok"
       /\ IsPrefix(head, line)
       /\ CountChar(SubSeq(line, Len(head) + 1, Len(line)), ")")
            = (IF prefix # <<>> THEN 1 ELSE 0)
       /\ CountChar(SubSeq(line, Len(head) + 1, Len(line)), "(") = 0

\* C8: lavf_describe_stream returns S_OK only with *ppszName set to a
\* non-null buffer holding a non-empty terminated line; a null stream or
\* null output parameter returns E_POINTER and writes nothing; a failed
\* buffer allocation is returned as a failure, not as S_OK.
C8_SuccessMeansBuffer ==
  (res.fn = "lavf_describe_stream" /\ res.out.status = "ok") =>
    /\ (res.in.stream_null \/ res.in.out_null) =>
         (res.out.hr = "E_POINTER" /\ res.out.out = NotWritten)
    /\ res.out.hr = "S_OK" =>
         /\ res.out.out.state = "buffer"
         /\ Len(res.out.out.wide) >= 2
         /\ res.out.out.wide[Len(res.out.out.wide)] = WNUL
    /\ (~res.in.stream_null /\ ~res.in.out_null /\ ~res.in.alloc_ok) =>
         res.out.hr # "S_OK"

\* C9: get_bit_rate returns the declared bit rate for video, data, subtitle
\* and attachment; for audio the exact product sample_rate * channels *
\* bits_per_sample when bits_per_sample is non-zero and the declared bit
\* rate otherwise; 0 for any other type.
C9_BitRateExact ==
  res.fn = "get_bit_rate" =>
    LET ctx == res.in
    IN IF ctx.codec_type \in {"VIDEO", "DATA", "SUBTITLE", "ATTACHMENT"}
         THEN res.out = ctx.bit_rate
       ELSE IF ctx.codec_type = "AUDIO"
         THEN IF ctx.bits_per_sample # 0
                THEN /\ res.out >= 0
                     /\ ToDigits(res.out) =
                          Normalize(MulDigits(MulDigits(ToDigits(ctx.sample_rate),
                                                        ToDigits(ctx.channels)),
                                              ToDigits(ctx.bits_per_sample)))
              ELSE res.out = ctx.bit_rate
       ELSE res.out = 0

\* C10: for a codec identity that is not in nice_codec_names the lookup reads
\* only the table's entries and selects no nice name: the index it reads at
\* stays below the number of entries.
C10_ScanStaysInTable ==
  (res.fn = "get_codec_name" /\ EffectiveId(res.in) \notin TableIds) =>
    /\ res.out.nice_name = NULL
    /\ res.out.scan_read < Len(nice_codec_names)

=============================================================================
